---- MODULE Spec2Model ----
(***************************************************************************)
(* Model of the two Python modules of mqt.naviz:                           *)
(*   python/mqt/naviz/__init__.py  the package initializer                 *)
(*   docs/conf.py                  the Sphinx configuration                *)
(* Both are straight-line module bodies.  Each top-level statement is one  *)
(* action; pkg_pc and conf_pc name the next statement to be executed.      *)
(* Version strings are sequences of one-character strings.                 *)
(***************************************************************************)
EXTENDS Integers, Sequences, FiniteSets, TLC

VARIABLES
    _version_version,    \* attribute `version` of the module mqt.naviz._version
    __version__,         \* mqt.naviz.__version__
    __all__,             \* mqt.naviz.__all__
    pkg_pc,              \* next statement of __init__.py
    version,             \* conf.py: version
    release,             \* conf.py: release
    master_doc,          \* conf.py: master_doc
    myst_substitutions,  \* conf.py: myst_substitutions
    latex_documents,     \* conf.py: latex_documents
    latex_docclass,      \* conf.py: latex_docclass
    rust_crates,         \* conf.py: rust_crates
    conf_pc              \* next statement of conf.py

vars == <<_version_version, __version__, __all__, pkg_pc, version, release,
          master_doc, myst_substitutions, latex_documents, latex_docclass,
          rust_crates, conf_pc>>

pkg_vars == <<_version_version, __version__, __all__, pkg_pc>>

conf_vars == <<version, release, master_doc, myst_substitutions,
               latex_documents, latex_docclass, rust_crates, conf_pc>>

-----------------------------------------------------------------------------
(* Bounds and input sets *)

MaxLen == 4

Alphabet == {"1", "a", "+"}

\* every string over Alphabet of length 0..MaxLen
Versions == UNION {[1..n -> Alphabet] : n \in 0..MaxLen}

-----------------------------------------------------------------------------
(* str.split(sep) for a one-character separator: the list of the fields    *)
(* between the occurrences of sep; a string without sep is its only field, *)
(* and the empty string splits into one empty field.                       *)

RECURSIVE split(_, _)
split(s, sep) ==
    IF s = <<>> THEN << <<>> >>
    ELSE LET rest == split(Tail(s), sep)
         IN  IF Head(s) = sep
             THEN << <<>> >> \o rest
             ELSE << <<Head(s)>> \o rest[1] >> \o Tail(rest)

\* s contains the character "+"
HasPlus(s) == \E i \in 1..Len(s) : s[i] = "+"

\* number of "+" characters of s
CountPlus(s) == Cardinality({i \in 1..Len(s) : s[i] = "+"})

-----------------------------------------------------------------------------
(* Order of the statements of conf.py *)

ConfOrder == <<"version", "release", "master_doc", "myst_substitutions",
               "latex_documents", "latex_docclass", "rust_crates", "done">>

Pos(l) == CHOOSE i \in 1..Len(ConfOrder) : ConfOrder[i] = l

\* the statement named l of conf.py has been executed
Executed(l) == conf_pc # "error" /\ Pos(conf_pc) > Pos(l)

-----------------------------------------------------------------------------
(* Initial state: no statement executed, no name bound.  The generated     *)
(* module _version carries some version string.                            *)

Init ==
    /\ _version_version \in Versions
    /\ __version__ = <<>>
    /\ __all__ = <<>>
    /\ pkg_pc = "import"
    /\ version = <<>>
    /\ release = <<>>
    /\ master_doc = ""
    /\ myst_substitutions = <<>>
    /\ latex_documents = <<>>
    /\ latex_docclass = <<>>
    /\ rust_crates = <<>>
    /\ conf_pc = "version"

-----------------------------------------------------------------------------
(* python/mqt/naviz/__init__.py *)

\* a filtering re-export: keeps only the text before the first "+"
ImportVersionFiltered ==
    /\ pkg_pc = "import"
    /\ __version__' = split(_version_version, "+")[1]
    /\ pkg_pc' = "all"
    /\ UNCHANGED <<_version_version, __all__>>
    /\ UNCHANGED conf_vars

\* from ._version import version as __version__
ImportVersion ==
    /\ pkg_pc = "import"
    /\ __version__' = _version_version
    /\ pkg_pc' = "all"
    /\ UNCHANGED <<_version_version, __all__>>
    /\ UNCHANGED conf_vars

\* __all__ = ["__version__"]
SetAll ==
    /\ pkg_pc = "all"
    /\ __all__' = <<"__version__">>
    /\ pkg_pc' = "done"
    /\ UNCHANGED <<_version_version, __version__>>
    /\ UNCHANGED conf_vars

-----------------------------------------------------------------------------
(* docs/conf.py *)

\* version = metadata.version("mqt.naviz"), the distribution being installed
LoadVersion ==
    /\ conf_pc = "version"
    /\ \E v \in Versions : version' = v
    /\ conf_pc' = "release"
    /\ UNCHANGED <<release, master_doc, myst_substitutions, latex_documents,
                   latex_docclass, rust_crates>>
    /\ UNCHANGED pkg_vars

\* metadata.version("mqt.naviz") raises PackageNotFoundError: the
\* configuration is abandoned with no name bound
LoadVersionNotInstalled ==
    /\ conf_pc = "version"
    /\ conf_pc' = "error"
    /\ UNCHANGED <<version, release, master_doc, myst_substitutions,
                   latex_documents, latex_docclass, rust_crates>>
    /\ UNCHANGED pkg_vars

\* no filtering at all
ComputeReleaseUnfiltered ==
    /\ conf_pc = "release"
    /\ release' = version
    /\ conf_pc' = "master_doc"
    /\ UNCHANGED <<version, master_doc, myst_substitutions, latex_documents,
                   latex_docclass, rust_crates>>
    /\ UNCHANGED pkg_vars

\* version.rsplit("+", 1)[0]: only the last "+" and what follows is removed
ComputeReleaseRsplit ==
    /\ conf_pc = "release"
    /\ release' = IF HasPlus(version)
                  THEN LET last == CHOOSE i \in 1..Len(version) :
                                       /\ version[i] = "+"
                                       /\ \A j \in (i+1)..Len(version) :
                                              version[j] # "+"
                       IN  SubSeq(version, 1, last - 1)
                  ELSE version
    /\ conf_pc' = "master_doc"
    /\ UNCHANGED <<version, master_doc, myst_substitutions, latex_documents,
                   latex_docclass, rust_crates>>
    /\ UNCHANGED pkg_vars

\* release = version.split("+")[0]
ComputeRelease ==
    /\ conf_pc = "release"
    /\ release' = split(version, "+")[1]
    /\ conf_pc' = "master_doc"
    /\ UNCHANGED <<version, master_doc, myst_substitutions, latex_documents,
                   latex_docclass, rust_crates>>
    /\ UNCHANGED pkg_vars

\* master_doc = "index"
SetMasterDoc ==
    /\ conf_pc = "master_doc"
    /\ master_doc' = "index"
    /\ conf_pc' = "myst_substitutions"
    /\ UNCHANGED <<version, release, myst_substitutions, latex_documents,
                   latex_docclass, rust_crates>>
    /\ UNCHANGED pkg_vars

\* the substitution carries the filtered release
SetMystSubstitutionsRelease ==
    /\ conf_pc = "myst_substitutions"
    /\ myst_substitutions' = [k \in {"version"} |-> release]
    /\ conf_pc' = "latex_documents"
    /\ UNCHANGED <<version, release, master_doc, latex_documents,
                   latex_docclass, rust_crates>>
    /\ UNCHANGED pkg_vars

\* myst_substitutions = {"version": version}
SetMystSubstitutions ==
    /\ conf_pc = "myst_substitutions"
    /\ myst_substitutions' = [k \in {"version"} |-> version]
    /\ conf_pc' = "latex_documents"
    /\ UNCHANGED <<version, release, master_doc, latex_documents,
                   latex_docclass, rust_crates>>
    /\ UNCHANGED pkg_vars

\* latex_documents = [(master_doc, "mqt_naviz.tex", <title>, <author>,
\*                     "howto", False)]
SetLatexDocuments ==
    /\ conf_pc = "latex_documents"
    /\ latex_documents' =
         << << master_doc,
               "mqt_naviz.tex",
               "MQT NAViz\\\\{\\Large A tool for Mapping Quantum Circuits to various Hardware Technologies}",
               "Chair for Design Automation\\\\ Technical University of Munich, Germany\\\\\n        \\href{mailto:quantum.cda@xcit.tum.de}{quantum.cda@xcit.tum.de}\\\\\n        Munich Quantum Software Company GmbH\\\\Garching near Munich, Germany",
               "howto",
               FALSE >> >>
    /\ conf_pc' = "latex_docclass"
    /\ UNCHANGED <<version, release, master_doc, myst_substitutions,
                   latex_docclass, rust_crates>>
    /\ UNCHANGED pkg_vars

\* the document class is registered for the theme "manual" instead
SetLatexDocclassManual ==
    /\ conf_pc = "latex_docclass"
    /\ latex_docclass' = [k \in {"manual"} |-> "IEEEtran"]
    /\ conf_pc' = "rust_crates"
    /\ UNCHANGED <<version, release, master_doc, myst_substitutions,
                   latex_documents, rust_crates>>
    /\ UNCHANGED pkg_vars

\* latex_docclass = {"howto": "IEEEtran"}
SetLatexDocclass ==
    /\ conf_pc = "latex_docclass"
    /\ latex_docclass' = [k \in {"howto"} |-> "IEEEtran"]
    /\ conf_pc' = "rust_crates"
    /\ UNCHANGED <<version, release, master_doc, myst_substitutions,
                   latex_documents, rust_crates>>
    /\ UNCHANGED pkg_vars

\* the Python bindings crate is mapped to a directory of another name
SetRustCratesRenamed ==
    /\ conf_pc = "rust_crates"
    /\ rust_crates' = [k \in {"animator", "bindings", "renderer",
                              "repository", "state", "video"} |->
                          IF k = "bindings" THEN "python" ELSE k]
    /\ conf_pc' = "done"
    /\ UNCHANGED <<version, release, master_doc, myst_substitutions,
                   latex_documents, latex_docclass>>
    /\ UNCHANGED pkg_vars

\* rust_crates = {"animator": "animator", ..., "video": "video"}
SetRustCrates ==
    /\ conf_pc = "rust_crates"
    /\ rust_crates' = ( "animator"   :> "animator"
                     @@ "bindings"   :> "bindings"
                     @@ "renderer"   :> "renderer"
                     @@ "repository" :> "repository"
                     @@ "state"      :> "state"
                     @@ "video"      :> "video" )
    /\ conf_pc' = "done"
    /\ UNCHANGED <<version, release, master_doc, myst_substitutions,
                   latex_documents, latex_docclass>>
    /\ UNCHANGED pkg_vars

-----------------------------------------------------------------------------

Next ==
    \/ ImportVersion
    \/ SetAll
    \/ LoadVersion
    \/ LoadVersionNotInstalled
    \/ ComputeRelease
    \/ SetMasterDoc
    \/ SetMystSubstitutions
    \/ SetLatexDocuments
    \/ SetLatexDocclass
    \/ SetRustCrates

Spec == Init /\ [][Next]_vars

-----------------------------------------------------------------------------
(* Properties *)

\* C1: once the package initializer has run, the public interface is exactly
\* the one name __version__ (__all__ is the one-element list
\* ["__version__"]), and __version__ is the `version` attribute of the
\* _version module, unchanged.
PublicInterfaceIsVersion ==
    /\ pkg_pc \in {"all", "done"} => __version__ = _version_version
    /\ pkg_pc = "done" => __all__ = <<"__version__">>

\* the initializer has run on a version that carries a local "+" part
PublicInterfaceWitness ==
    /\ pkg_pc = "done"
    /\ HasPlus(_version_version)
    /\ _version_version[1] # "+"

\* C2: once rust_crates is assigned, it lists exactly the six crates
\* animator, bindings, renderer, repository, state, video, and maps each
\* crate name to the directory of the identical name.
RustCratesIdentity ==
    Executed("rust_crates") =>
        /\ DOMAIN rust_crates = {"animator", "bindings", "renderer",
                                 "repository", "state", "video"}
        /\ Cardinality(DOMAIN rust_crates) = 6
        /\ \A k \in DOMAIN rust_crates : rust_crates[k] = k

\* the configuration has been executed to its end
RustCratesWitness ==
    /\ conf_pc = "done"
    /\ "video" \in DOMAIN rust_crates

\* C3: release is the longest prefix of version that contains no "+":
\* it never contains "+", it equals version when version has no "+",
\* otherwise version is release, then "+", then the removed suffix (which
\* may contain further "+"); a version starting with "+" gives the empty
\* release.
ReleaseIsLongestPlusFreePrefix ==
    Executed("release") =>
        /\ ~HasPlus(release)
        /\ Len(release) <= Len(version)
        /\ release = SubSeq(version, 1, Len(release))
        /\ \A k \in 0..Len(version) :
               ~HasPlus(SubSeq(version, 1, k)) => k <= Len(release)
        /\ ~HasPlus(version) => release = version
        /\ HasPlus(version) =>
               version = release \o <<"+">>
                           \o SubSeq(version, Len(release) + 2, Len(version))
        /\ (version # <<>> /\ Head(version) = "+") => release = <<>>

\* release was computed from a version whose removed suffix itself
\* contains a "+", and the release is not empty
ReleaseWitness ==
    /\ Executed("release")
    /\ CountPlus(version) >= 2
    /\ release # <<>>
    /\ release # version

\* C4: the filter is idempotent: the text before the first "+" of release
\* is release itself.
ReleaseFilterIdempotent ==
    Executed("release") => split(release, "+")[1] = release

\* release was computed from a version with two "+" separated by text
ReleaseIdempotentWitness ==
    /\ Executed("release")
    /\ CountPlus(version) >= 2
    /\ Len(split(version, "+")[2]) > 0
    /\ Len(release) > 0

\* C5: the MyST substitution "version" is the full, unfiltered version, and
\* it differs from release exactly when version contains a "+".
MystVersionUnfiltered ==
    Executed("myst_substitutions") =>
        /\ DOMAIN myst_substitutions = {"version"}
        /\ myst_substitutions["version"] = version
        /\ (myst_substitutions["version"] # release) <=> HasPlus(version)

\* the substitution was assigned for a version with a "+" part, so that it
\* differs from release
MystVersionWitness ==
    /\ Executed("myst_substitutions")
    /\ HasPlus(version)
    /\ myst_substitutions["version"] # release
    /\ release # <<>>

\* C6: every entry of latex_documents starts at master_doc ("index") and
\* uses the theme "howto", and latex_docclass defines the document class
\* IEEEtran for every theme latex_documents uses.
LatexConfigConsistent ==
    /\ Executed("latex_documents") =>
           \A i \in 1..Len(latex_documents) :
               /\ latex_documents[i][1] = master_doc
               /\ master_doc = "index"
               /\ latex_documents[i][5] = "howto"
    /\ Executed("latex_docclass") =>
           \A i \in 1..Len(latex_documents) :
               /\ latex_documents[i][5] \in DOMAIN latex_docclass
               /\ latex_docclass[latex_documents[i][5]] = "IEEEtran"

\* both LaTeX settings are assigned and there is a document to build
LatexConfigWitness ==
    /\ Executed("latex_docclass")
    /\ Len(latex_documents) >= 1
    /\ "howto" \in DOMAIN latex_docclass

====
